---- MODULE Spec2Model ----
(***************************************************************************)
(* redis-sentinel-service-controller: the master-address tracker of        *)
(* src/main.rs.  main() queries the sentinel once, materializes the        *)
(* answer, starts the switch-master listener thread and the polling        *)
(* thread, and then drains the mpsc channel into materialize_service.      *)
(*                                                                         *)
(* Text is a sequence of one-character strings, so that splitting and      *)
(* number parsing are computed character by character as the code does.    *)
(*                                                                         *)
(* Specifications: Spec, the program with any reply and any message coming *)
(* in (FairSpec: the main thread is scheduled); QuerySpec, the query on    *)
(* its own; CrashSpec, the program with a stderr that can fail;            *)
(* SentinelSpec, the program next to a sentinel tier that names a master   *)
(* (SentinelFairSpec: the polling thread and the loop of main scheduled).  *)
(***************************************************************************)
EXTENDS Integers, Sequences, FiniteSets, TLC

(***************************************************************************)
(* Bounds of the model.                                                    *)
(***************************************************************************)
\* how many sends to the channel a behaviour may contain
MaxSent == 2

(***************************************************************************)
(* Text helpers.                                                           *)
(***************************************************************************)
Digits == <<"0", "1", "2", "3", "4", "5", "6", "7", "8", "9">>

IsDigit(c) == \E i \in 1..10 : Digits[i] = c

\* char::to_digit(10)
DigitVal(c) == (CHOOSE i \in 1..10 : Digits[i] = c) - 1

\* u8::is_ascii_whitespace: space, tab, line feed, form feed, carriage return
AsciiWhitespace == {" ", "\t", "\n", "\f", "\r"}

\* a byte that cannot occur in UTF-8 text (0xFF)
BadByte == "#FF"

Ok(v) == [tag |-> "Ok", value |-> v]

Err(k) == [tag |-> "Err", kind |-> k]

U16_MAX == 65535

\* the digit loop of <u16 as FromStr>: checked_mul by 10, to_digit,
\* checked_add, in that order of failure
RECURSIVE ParseDigits(_, _)
ParseDigits(digits, acc) ==
    IF digits = <<>> THEN Ok(acc)
    ELSE IF ~IsDigit(Head(digits)) THEN Err("InvalidDigit")
    ELSE IF acc * 10 > U16_MAX THEN Err("PosOverflow")
    ELSE IF acc * 10 + DigitVal(Head(digits)) > U16_MAX THEN Err("PosOverflow")
    ELSE ParseDigits(Tail(digits), acc * 10 + DigitVal(Head(digits)))

\* str::parse::<u16>(): empty text, a lone sign, a minus sign (u16 is
\* unsigned), a non-digit and a value above 65535 are errors; one leading
\* plus sign and leading zeros are accepted
ParseU16(src) ==
    IF src = <<>> THEN Err("Empty")
    ELSE IF Len(src) = 1 /\ src[1] \in {"+", "-"} THEN Err("InvalidDigit")
    ELSE ParseDigits(IF src[1] = "+" THEN Tail(src) ELSE src, 0)

\* the decimal text of 2^64 - 1
U64_MAX_TEXT == <<"1","8","4","4","6","7","4","4","0","7","3","7","0","9","5","5","1","6","1","5">>

RECURSIVE StripZeros(_)
StripZeros(ds) ==
    IF ds # <<>> /\ Head(ds) = "0" THEN StripZeros(Tail(ds)) ELSE ds

\* a < b for two digit texts of the same length
RECURSIVE DigitsLess(_, _)
DigitsLess(a, b) ==
    IF a = <<>> THEN FALSE
    ELSE IF DigitVal(Head(a)) # DigitVal(Head(b))
         THEN DigitVal(Head(a)) < DigitVal(Head(b))
         ELSE DigitsLess(Tail(a), Tail(b))

\* str::parse::<u64>() of the poll interval, as success or failure only: the
\* value 2^64 - 1 is compared as decimal text
ParseU64Ok(src) ==
    IF src = <<>> THEN FALSE
    ELSE IF Len(src) = 1 /\ src[1] \in {"+", "-"} THEN FALSE
    ELSE LET ds == IF src[1] = "+" THEN Tail(src) ELSE src
             nz == StripZeros(ds)
         IN  /\ \A i \in 1..Len(ds) : IsDigit(ds[i])
             /\ \/ Len(nz) < Len(U64_MAX_TEXT)
                \/ /\ Len(nz) = Len(U64_MAX_TEXT)
                   /\ ~DigitsLess(U64_MAX_TEXT, nz)

\* String::from_utf8 inside Msg::get_payload::<String>()
ValidUtf8(bytes) == \A i \in 1..Len(bytes) : bytes[i] # BadByte

\* str::split_ascii_whitespace().collect(): the maximal runs of
\* non-whitespace characters, in order; never an empty token
RECURSIVE SplitFrom(_, _, _)
SplitFrom(s, cur, acc) ==
    IF s = <<>> THEN (IF cur = <<>> THEN acc ELSE Append(acc, cur))
    ELSE IF Head(s) \in AsciiWhitespace
         THEN SplitFrom(Tail(s), <<>>, IF cur = <<>> THEN acc ELSE Append(acc, cur))
         ELSE SplitFrom(Tail(s), Append(cur, Head(s)), acc)

split_ascii_whitespace(s) == SplitFrom(s, <<>>, <<>>)

(***************************************************************************)
(* AddressQuery and the switch-master handler.                             *)
(***************************************************************************)
Address(host, port) == [host |-> host, port |-> port]

get_master_wrong_host(response) ==
    IF response.tag = "Err" THEN Err("RedisErr")
    ELSE IF Len(response.value) # 2 THEN Err("InvalidResponse")
    ELSE LET host == response.value[2]
             port == ParseU16(response.value[2])
         IN  IF port.tag = "Err" THEN Err("InvalidResponse")
             ELSE Ok(Address(host, port.value))

get_master_wrong_len(response) ==
    IF response.tag = "Err" THEN Err("RedisErr")
    ELSE IF Len(response.value) < 2 THEN Err("InvalidResponse")
    ELSE LET host == response.value[1]
             port == ParseU16(response.value[2])
         IN  IF port.tag = "Err" THEN Err("InvalidResponse")
             ELSE Ok(Address(host, port.value))

\* response is what Cmd::query::<Vec<String>> returned: Ok(list of texts) or
\* Err(RedisError)
get_master_from_sentinel(response) ==
    IF response.tag = "Err" THEN Err("RedisErr")
    ELSE IF Len(response.value) # 2 THEN Err("InvalidResponse")
    ELSE LET host == response.value[1]
             port == ParseU16(response.value[2])
         IN  IF port.tag = "Err" THEN Err("InvalidResponse")
             ELSE Ok(Address(host, port.value))

Handled(flow, send, log) == [flow |-> flow, send |-> send, log |-> log]

invalid_event_stops == "Break"

\* line 90: what the handler returns for a message of fewer than 5 segments
invalid_event_flow == "Continue"

is_our_master_prefix(name, affected_master) ==
    /\ Len(affected_master) >= Len(name)
    /\ SubSeq(affected_master, 1, Len(name)) = name

\* line 93: master_name.as_str() != affected_master, negated
is_our_master(name, affected_master) == name = affected_master

new_host_wrong(segments) == segments[2]

\* line 100
new_host(segments) == segments[4]

\* the closure handed to Connection::subscribe: what it returns ("Continue"),
\* or that it panics, the addresses it sends and the line it logs
switch_master_handler(payload, name) ==
    IF ~ValidUtf8(payload) THEN Handled("Panic", <<>>, "panic: get_payload")
    ELSE LET segments == split_ascii_whitespace(payload)
         IN  IF Len(segments) < 5
             THEN Handled(invalid_event_flow, <<>>, "Received invalid switch-master event")
             ELSE IF ~is_our_master(name, segments[1])
             THEN Handled("Continue", <<>>, "we are not interested in that")
             ELSE LET host == new_host(segments)
                      port == ParseU16(segments[5])
                  IN  IF port.tag = "Err"
                      THEN Handled("Panic", <<>>, "panic: parse port")
                      ELSE Handled("Continue", <<Address(host, port.value)>>, "")

send_bounded(ch, entry) == IF Len(ch) >= 1 THEN ch ELSE Append(ch, entry)

send_front(ch, entry) == <<entry>> \o ch

\* Sender::send on the unbounded mpsc channel
send(ch, entry) == Append(ch, entry)

materialize_changed(log, entry) ==
    IF log # <<>> /\ log[Len(log)].addr = entry.addr THEN log ELSE Append(log, entry)

\* materialize_service, seen from outside: one more invocation, with addr
materialize_service(log, entry) == Append(log, entry)

after_query_stops(result) == IF result.tag = "Ok" THEN "Sleeping" ELSE "Panicked"

after_query_no_sleep(result) == IF result.tag = "Ok" THEN "Sleeping" ELSE "Connecting"

\* lines 129-137: where the polling loop goes after the match on the query's
\* result
after_query(result) == "Sleeping"

after_connect_failure_sleeps == "Sleeping"

\* lines 124-127: where the polling loop goes when get_connection fails
\* (continue)
after_connect_failure == "Connecting"

args_len_at_least(argv) == Len(argv) >= 4

\* line 157: the argument count main accepts
args_len_ok(argv) == Len(argv) = 4

(***************************************************************************)
(* Inputs: command lines, sentinel replies, notifications.                 *)
(***************************************************************************)
RECURSIVE Join(_, _)
Join(toks, sep) ==
    IF toks = <<>> THEN <<>>
    ELSE IF Len(toks) = 1 THEN toks[1]
    ELSE toks[1] \o sep \o Join(Tail(toks), sep)

Prog == <<"p">>
SentinelAddr == <<"s">>
G == <<"m">>
OtherG == <<"o">>
LongerG == <<"m", "m">>
HostA == <<"a">>
HostB == <<"b">>
Port0 == <<"0">>
Port1 == <<"1">>
Port2 == <<"2">>
PortPlus1 == <<"+", "1">>
PortZero2 == <<"0", "2">>
PortMax == <<"6", "5", "5", "3", "5">>
PortOver == <<"6", "5", "5", "3", "6">>
PortNeg == <<"-", "1">>
PortWord == <<"x">>
SP == <<" ">>

Argvs ==
    { <<Prog>>,
      <<Prog, SentinelAddr>>,
      <<Prog, SentinelAddr, G>>,
      <<Prog, SentinelAddr, G, <<"5">>>>,
      <<Prog, SentinelAddr, G, <<>>>>,
      <<Prog, SentinelAddr, G, <<"x">>>>,
      <<Prog, SentinelAddr, G, <<"5", "s">>>>,
      <<Prog, SentinelAddr, G, <<"-", "5">>>>,
      <<Prog, SentinelAddr, G, <<"1", "8", "4", "4", "6", "7", "4", "4", "0", "7",
                                 "3", "7", "0", "9", "5", "5", "1", "6", "1", "6">>>>,
      <<Prog, SentinelAddr, G, <<"5">>, <<"x">>>> }

\* what the sentinel answers the running program
Responses ==
    { Err("RedisError"),
      Ok(<<HostA>>),
      Ok(<<HostA, Port1>>),
      Ok(<<HostA, PortPlus1>>),
      Ok(<<HostB, Port2>>),
      Ok(<<HostB, PortOver>>) }

\* the +switch-master messages the running program receives
Payloads ==
    { Join(<<G, HostA, Port1, HostB, Port2>>, SP),
      Join(<<G, HostB, Port2, HostA, Port1>>, SP),
      Join(<<G, HostA, Port1, HostB, Port2, PortWord>>, SP),
      Join(<<G, PortWord, PortWord, HostB, Port2>>, SP),
      <<" ", "\t">> \o Join(<<G, HostA, Port1, HostB, PortZero2>>, <<"\r", "\n">>) \o <<"\f">>,
      Join(<<G, HostA, Port1, HostB, PortOver>>, SP),
      Join(<<G, HostA, Port1, HostB, PortWord>>, SP),
      Join(<<OtherG, HostA, Port1, HostB, PortWord>>, SP),
      Join(<<LongerG, HostA, Port1, HostB, Port2>>, SP),
      Join(<<G, HostA, Port1, HostB>>, SP),
      <<>>,
      SP,
      <<BadByte>> \o Join(<<G, HostA, Port1, HostB, Port2>>, SP) }

\* the longest reply the query is tried on
MaxReplyLen == 3

ReplyTexts ==
    { HostA, HostB, Port0, Port1, PortPlus1, PortZero2, PortMax, PortOver,
      PortNeg, PortWord, <<"+">>, <<>>, <<"1", "x">>, <<"6", "5", "5", "3", "5", "0">>,
      <<"0", "6", "5", "5", "3", "5">>, <<"1", " ">> }

\* every reply of up to MaxReplyLen of these texts, and the failed request
AllResponses ==
    {Err("RedisError")}
    \cup {Ok(r) : r \in UNION {[1..n -> ReplyTexts] : n \in 0..MaxReplyLen}}

(***************************************************************************)
(* State.                                                                  *)
(***************************************************************************)
VARIABLES
    args,        \* env::args()
    mainPc,      \* where main is
    listenerPc,  \* where the thread of listen_for_master_switches is
    pollerPc,    \* where the thread of poll_master_address is
    chan,        \* the mpsc channel: entries sent and not yet received
    sent,        \* history: every entry ever sent, in the order of the sends
    recvCount,   \* history: how many entries rx.recv() has returned
    matLog,      \* history: the invocations of materialize_service, in order
    lastEvent,   \* history: the last input handled and what the code made of it
    master,      \* the sentinel tier: the master it names, as <<host, port text>>
    reply,       \* the sentinel tier: its reply to the poller's query, on its way
    settled      \* the sentinel tier: it has become reachable and quiet for good

vars == <<args, mainPc, listenerPc, pollerPc, chan, sent, recvCount, matLog, lastEvent,
          master, reply, settled>>

\* no reply is on its way
NoReply == [tag |-> "None"]

master_name == args[3]

Entry(addr, from) == [addr |-> addr, from |-> from]

Init ==
    /\ args \in Argvs
    /\ mainPc = "ParseArgs"
    /\ listenerPc = "NotStarted"
    /\ pollerPc = "NotStarted"
    /\ chan = <<>>
    /\ sent = <<>>
    /\ recvCount = 0
    /\ matLog = <<>>
    /\ lastEvent = [op |-> "none"]
    /\ master = <<HostA, Port1>>
    /\ reply = NoReply
    /\ settled = FALSE

(***************************************************************************)
(* main.                                                                   *)
(***************************************************************************)
\* lines 156-167: the argument count, then args[3].parse().unwrap()
main_parse_args ==
    /\ mainPc = "ParseArgs"
    /\ mainPc' = IF ~args_len_ok(args) THEN "ExitFailure"
                 ELSE IF ~ParseU64Ok(args[4]) THEN "Panicked"
                 ELSE "OpenClient"
    /\ UNCHANGED <<args, master, reply, settled, listenerPc, pollerPc, chan, sent, recvCount, matLog, lastEvent>>

\* line 168: Client::open(..).unwrap()
main_open_client ==
    /\ mainPc = "OpenClient"
    /\ \E ok \in BOOLEAN : mainPc' = IF ok THEN "Connect" ELSE "Panicked"
    /\ UNCHANGED <<args, master, reply, settled, listenerPc, pollerPc, chan, sent, recvCount, matLog, lastEvent>>

\* line 169: client.get_connection().unwrap()
main_connect ==
    /\ mainPc = "Connect"
    /\ \E ok \in BOOLEAN : mainPc' = IF ok THEN "InitialQuery" ELSE "Panicked"
    /\ UNCHANGED <<args, master, reply, settled, listenerPc, pollerPc, chan, sent, recvCount, matLog, lastEvent>>

on_initial_response_unmaterialized(response) ==
    /\ mainPc = "InitialQuery"
    /\ LET result == get_master_from_sentinel(response)
       IN  /\ lastEvent' = [op |-> "query", by |-> "main",
                            response |-> response, result |-> result]
           /\ mainPc' = IF result.tag = "Ok" THEN "SpawnListener" ELSE "ExitFailure"
    /\ UNCHANGED <<args, listenerPc, pollerPc, chan, sent, recvCount, matLog>>

\* lines 170-181: the initial query, its materialization, the channel
on_initial_response(response) ==
    /\ mainPc = "InitialQuery"
    /\ LET result == get_master_from_sentinel(response)
       IN  /\ lastEvent' = [op |-> "query", by |-> "main",
                            response |-> response, result |-> result]
           /\ IF result.tag = "Ok"
              THEN /\ matLog' = materialize_service(matLog, Entry(result.value, "initial"))
                   /\ mainPc' = "SpawnListener"
              ELSE /\ matLog' = matLog
                   /\ mainPc' = "ExitFailure"
    /\ UNCHANGED <<args, listenerPc, pollerPc, chan, sent, recvCount>>

\* any reply may come back
main_initial_query ==
    /\ \E response \in Responses : on_initial_response(response)
    /\ UNCHANGED <<master, reply, settled>>

\* line 183
main_spawn_listener ==
    /\ mainPc = "SpawnListener"
    /\ listenerPc' = "Connecting"
    /\ mainPc' = "SpawnPoller"
    /\ UNCHANGED <<args, master, reply, settled, pollerPc, chan, sent, recvCount, matLog, lastEvent>>

\* lines 184-189
main_spawn_poller ==
    /\ mainPc = "SpawnPoller"
    /\ pollerPc' = "Connecting"
    /\ mainPc' = "Reconcile"
    /\ UNCHANGED <<args, master, reply, settled, listenerPc, chan, sent, recvCount, matLog, lastEvent>>

Senders_of_threads ==
    (IF listenerPc \in {"Connecting", "Subscribing", "Subscribed"} THEN {"listener"} ELSE {})
    \cup (IF pollerPc \in {"Connecting", "Querying", "Sleeping"} THEN {"poller"} ELSE {})

\* the Sender handles that are alive: main's tx lives as long as main, each
\* thread's clone as long as the thread
Senders ==
    (IF mainPc \in {"SpawnListener", "SpawnPoller", "Reconcile"} THEN {"main"} ELSE {})
    \cup (IF listenerPc \in {"Connecting", "Subscribing", "Subscribed"} THEN {"listener"} ELSE {})
    \cup (IF pollerPc \in {"Connecting", "Querying", "Sleeping"} THEN {"poller"} ELSE {})

main_reconcile_latest ==
    /\ mainPc = "Reconcile"
    /\ chan # <<>>
    /\ chan' = <<>>
    /\ recvCount' = recvCount + Len(chan)
    /\ matLog' = materialize_service(matLog, chan[Len(chan)])
    /\ UNCHANGED <<args, master, reply, settled, mainPc, listenerPc, pollerPc, sent, lastEvent>>

\* lines 191-202, one iteration: rx.recv() blocks while the channel is empty
\* and a Sender is alive, and fails when it is empty and none is
main_reconcile ==
    /\ mainPc = "Reconcile"
    /\ IF chan # <<>>
       THEN /\ chan' = Tail(chan)
            /\ recvCount' = recvCount + 1
            /\ matLog' = materialize_service(matLog, Head(chan))
            /\ lastEvent' = lastEvent
       ELSE /\ Senders = {}
            /\ lastEvent' = [op |-> "receive_failed"]
            /\ UNCHANGED <<chan, recvCount, matLog>>
    /\ UNCHANGED <<args, master, reply, settled, mainPc, listenerPc, pollerPc, sent>>

rx_alive_during_startup == mainPc \in {"SpawnListener", "SpawnPoller"}

\* the Receiver: made at line 181 and owned by main, it lives until main
\* ends; Sender::send fails when it is gone
rx_alive == mainPc \in {"SpawnListener", "SpawnPoller", "Reconcile"}

(***************************************************************************)
(* The thread of listen_for_master_switches.                               *)
(***************************************************************************)
\* lines 73-79
listen_connect ==
    /\ listenerPc = "Connecting"
    /\ \E ok \in BOOLEAN :
         IF ok THEN /\ listenerPc' = "Subscribing"
                    /\ lastEvent' = lastEvent
         ELSE /\ listenerPc' = "Connecting"
              /\ lastEvent' = [op |-> "connect_failed", by |-> "listener"]
    /\ UNCHANGED <<args, master, reply, settled, mainPc, pollerPc, chan, sent, recvCount, matLog>>

\* line 81, the SUBSCRIBE that starts Connection::subscribe; lines 106-109
\* when it fails
listen_subscribe ==
    /\ listenerPc = "Subscribing"
    /\ \E ok \in BOOLEAN :
         IF ok THEN /\ listenerPc' = "Subscribed"
                    /\ lastEvent' = lastEvent
         ELSE /\ listenerPc' = "Connecting"
              /\ lastEvent' = [op |-> "subscribe_failed", by |-> "listener"]
    /\ UNCHANGED <<args, master, reply, settled, mainPc, pollerPc, chan, sent, recvCount, matLog>>

\* lines 82-104: one message of the subscription goes through the handler
on_message(payload) ==
    /\ listenerPc = "Subscribed"
    /\ LET handled == switch_master_handler(payload, master_name)
       IN  IF handled.send # <<>> /\ ~rx_alive
           THEN \* line 102: send(..) is an Err, unwrap panics
                /\ listenerPc' = "Panicked"
                /\ lastEvent' = [op |-> "send_failed", by |-> "listener"]
                /\ UNCHANGED <<chan, sent>>
           ELSE /\ Len(sent) + Len(handled.send) <= MaxSent
                /\ listenerPc' = CASE handled.flow = "Continue" -> "Subscribed"
                                   [] handled.flow = "Break" -> "Connecting"
                                   [] handled.flow = "Panic" -> "Panicked"
                /\ chan' = IF handled.send = <<>> THEN chan
                           ELSE send(chan, Entry(handled.send[1], "listener"))
                /\ sent' = IF handled.send = <<>> THEN sent
                           ELSE Append(sent, Entry(handled.send[1], "listener"))
                /\ lastEvent' = [op |-> "notification", by |-> "listener",
                                 payload |-> payload, handled |-> handled]
    /\ UNCHANGED <<args, mainPc, pollerPc, recvCount, matLog>>

\* any message may arrive
listen_message ==
    /\ \E payload \in Payloads : on_message(payload)
    /\ UNCHANGED <<master, reply, settled>>

\* lines 106-109: the established subscription ends with an error
listen_subscription_error ==
    /\ listenerPc = "Subscribed"
    /\ listenerPc' = "Connecting"
    /\ lastEvent' = [op |-> "subscription_failed", by |-> "listener"]
    /\ UNCHANGED <<args, master, reply, settled, mainPc, pollerPc, chan, sent, recvCount, matLog>>

(***************************************************************************)
(* The thread of poll_master_address.                                      *)
(***************************************************************************)
\* lines 122-128
poll_connect ==
    /\ pollerPc = "Connecting"
    /\ \E ok \in BOOLEAN :
         IF ok THEN /\ pollerPc' = "Querying"
                    /\ lastEvent' = lastEvent
         ELSE /\ pollerPc' = after_connect_failure
              /\ lastEvent' = [op |-> "connect_failed", by |-> "poller"]
    /\ UNCHANGED <<args, master, reply, settled, mainPc, listenerPc, chan, sent, recvCount, matLog>>

on_response_unless_initial(response) ==
    /\ pollerPc = "Querying"
    /\ LET result == get_master_from_sentinel(response)
           fresh == result.tag = "Ok" /\ result.value # matLog[1].addr
       IN  /\ fresh => Len(sent) < MaxSent
           /\ chan' = IF fresh THEN send(chan, Entry(result.value, "poller")) ELSE chan
           /\ sent' = IF fresh THEN Append(sent, Entry(result.value, "poller")) ELSE sent
           /\ pollerPc' = after_query(result)
           /\ lastEvent' = [op |-> "query", by |-> "poller",
                            response |-> response, result |-> result]
    /\ UNCHANGED <<args, mainPc, listenerPc, recvCount, matLog>>

\* lines 129-136
on_response(response) ==
    /\ pollerPc = "Querying"
    /\ LET result == get_master_from_sentinel(response)
       IN  IF result.tag = "Ok" /\ ~rx_alive
           THEN \* line 131: send(..) is an Err, unwrap panics
                /\ pollerPc' = "Panicked"
                /\ lastEvent' = [op |-> "send_failed", by |-> "poller"]
                /\ UNCHANGED <<chan, sent>>
           ELSE /\ result.tag = "Ok" => Len(sent) < MaxSent
                /\ chan' = IF result.tag = "Ok"
                           THEN send(chan, Entry(result.value, "poller")) ELSE chan
                /\ sent' = IF result.tag = "Ok"
                           THEN Append(sent, Entry(result.value, "poller")) ELSE sent
                /\ pollerPc' = after_query(result)
                /\ lastEvent' = [op |-> "query", by |-> "poller",
                                 response |-> response, result |-> result]
    /\ UNCHANGED <<args, mainPc, listenerPc, recvCount, matLog>>

\* any reply may come back
poll_query ==
    /\ \E response \in Responses : on_response(response)
    /\ UNCHANGED <<master, reply, settled>>

\* line 137: thread::sleep(poll_interval) returns
poll_sleep ==
    /\ pollerPc = "Sleeping"
    /\ pollerPc' = "Connecting"
    /\ UNCHANGED <<args, master, reply, settled, mainPc, listenerPc, chan, sent, recvCount, matLog, lastEvent>>

Next ==
    \/ main_parse_args
    \/ main_open_client
    \/ main_connect
    \/ main_initial_query
    \/ main_spawn_listener
    \/ main_spawn_poller
    \/ main_reconcile
    \/ listen_connect
    \/ listen_subscribe
    \/ listen_message
    \/ listen_subscription_error
    \/ poll_connect
    \/ poll_query
    \/ poll_sleep

Spec == Init /\ [][Next]_vars

\* the main thread is scheduled: it gets through its startup, and its recv
\* loop takes every entry that is there
main_thread ==
    \/ main_parse_args
    \/ main_open_client
    \/ main_connect
    \/ main_initial_query
    \/ main_spawn_listener
    \/ main_spawn_poller
    \/ main_reconcile

FairSpec == Spec /\ WF_vars(main_thread)

(***************************************************************************)
(* get_master_from_sentinel on its own: main has connected, any reply of   *)
(* AllResponses is on its way, and the call turns it into a result.        *)
(***************************************************************************)
QueryInit ==
    /\ args = <<Prog, SentinelAddr, G, <<"5">>>>
    /\ mainPc = "InitialQuery"
    /\ listenerPc = "NotStarted"
    /\ pollerPc = "NotStarted"
    /\ chan = <<>>
    /\ sent = <<>>
    /\ recvCount = 0
    /\ matLog = <<>>
    /\ \E response \in AllResponses :
         lastEvent = [op |-> "response", by |-> "main", response |-> response]
    /\ master = <<HostA, Port1>>
    /\ reply = NoReply
    /\ settled = FALSE

query_call ==
    /\ lastEvent.op = "response"
    /\ lastEvent' = [op |-> "query", by |-> "main", response |-> lastEvent.response,
                     result |-> get_master_from_sentinel(lastEvent.response)]
    /\ UNCHANGED <<args, master, reply, settled, mainPc, listenerPc, pollerPc, chan, sent, recvCount, matLog>>

QueryNext == query_call

QuerySpec == QueryInit /\ [][QueryNext]_vars

(***************************************************************************)
(* Delivery through the channel.                                           *)
(***************************************************************************)
Producers == {"listener", "poller"}

ByProducer(seq, p) == SelectSeq(seq, LAMBDA e : e.from = p)

\* what one producer has sent is what the Materializer has got from it,
\* followed by what of it still waits in the channel
NoLossNoDup ==
    \A p \in Producers :
        ByProducer(matLog, p) \o ByProducer(chan, p) = ByProducer(sent, p)

\* C1: every address sent by the listener or the poller is passed to
\* materialize_service exactly once, each producer's addresses in the order
\* it sent them (always), and the n-th entry sent is eventually the n-th
\* entry materialized out of the channel, as long as the main thread is
\* scheduled.
C1_EveryUpdateDeliveredOnceInOrder ==
    /\ []NoLossNoDup
    /\ \A n \in 1..MaxSent :
          (Len(sent) >= n) ~> (Len(matLog) > n /\ matLog[n + 1] = sent[n])

\* both producers have sent, two different addresses among them, and
\* everything sent has been materialized
C1_Witness ==
    /\ Len(sent) >= 2
    /\ ByProducer(sent, "listener") # <<>>
    /\ ByProducer(sent, "poller") # <<>>
    /\ \E i, j \in 1..Len(sent) : sent[i].addr # sent[j].addr
    /\ chan = <<>>
    /\ SubSeq(matLog, 2, Len(matLog)) = sent

\* C2: the recv loop never deduplicates: the addresses it has materialized
\* are exactly the entries it has received, one invocation per entry, equal
\* neighbours included.
C2_NoDeduplication ==
    /\ Len(SelectSeq(matLog, LAMBDA e : e.from # "initial")) = recvCount
    /\ recvCount <= Len(sent)
    /\ \A k \in 1..recvCount : matLog[k + 1] = sent[k]

\* the initial address, then the same address from one producer and again
\* from the other, all three materialized
C2_Witness ==
    /\ Len(matLog) >= 3
    /\ recvCount >= 2
    /\ matLog[1].addr = matLog[2].addr
    /\ matLog[2].addr = matLog[3].addr
    /\ matLog[2].from # matLog[3].from

(***************************************************************************)
(* What a text denotes, by place value; used to state what the parsing     *)
(* must yield.                                                             *)
(***************************************************************************)
RECURSIVE Pow10(_)
Pow10(k) == IF k = 0 THEN 1 ELSE 10 * Pow10(k - 1)

RECURSIVE PlaceValueSum(_, _)
PlaceValueSum(ds, i) ==
    IF i > Len(ds) THEN 0
    ELSE DigitVal(ds[i]) * Pow10(Len(ds) - i) + PlaceValueSum(ds, i + 1)

Unsigned(text) == IF text # <<>> /\ text[1] = "+" THEN Tail(text) ELSE text

\* text is a decimal numeral (an optional plus sign, then digits) of a
\* number in 0..65535
DenotesU16(text) ==
    LET ds == Unsigned(text)
        nz == StripZeros(ds)
    IN  /\ ds # <<>>
        /\ \A i \in 1..Len(ds) : ds[i] \in {"0", "1", "2", "3", "4", "5", "6", "7", "8", "9"}
        /\ Len(nz) <= 5
        /\ PlaceValueSum(nz, 1) <= 65535

DecimalValue(text) == PlaceValueSum(StripZeros(Unsigned(text)), 1)

(***************************************************************************)
(* The switch-master handler.                                              *)
(***************************************************************************)
Tokens(payload) == split_ascii_whitespace(payload)

\* the notification the last event is about, if it is about one: a step of
\* on_message(payload) ends with payload in Handling
Handling == IF lastEvent.op = "notification" THEN {lastEvent.payload} ELSE {}

\* a text payload of 5 or more tokens, for our master, with a valid new port
MatchingNotification(payload) ==
    /\ ValidUtf8(payload)
    /\ Len(Tokens(payload)) >= 5
    /\ Tokens(payload)[1] = master_name
    /\ DenotesU16(Tokens(payload)[5])

\* C3: handling a text notification of 5 or more tokens whose first token is
\* the configured master name and whose fifth token is a valid port sends
\* exactly one entry, Address{tokens[3], parse(tokens[4])} (counting from 0),
\* whatever the other tokens are.
C3_MatchingNotificationPublished ==
    [][\A payload \in Handling' :
          (on_message(payload) /\ MatchingNotification(payload))
          => /\ chan' = Append(chan, Entry(Address(Tokens(payload)[4],
                                                   DecimalValue(Tokens(payload)[5])),
                                           "listener"))
             /\ Len(sent') = Len(sent) + 1
             /\ listenerPc' = "Subscribed"]_vars

\* a 6-token notification with junk old host and port tokens went through:
\* the entry at the end of the channel is its new host and port
C3_Witness ==
    /\ lastEvent.op = "notification"
    /\ lastEvent.payload \in
          { Join(<<G, PortWord, PortWord, HostB, Port2>>, SP),
            Join(<<G, HostA, Port1, HostB, Port2, PortWord>>, SP) }
    /\ chan # <<>>
    /\ chan[Len(chan)] = Entry(Address(HostB, 2), "listener")

\* C4 (as claimed): handling a matching text notification whose fifth token
\* is not a valid port sends nothing and leaves the listener subscribed.
C4_BadPortDiscarded ==
    [][\A payload \in Handling' :
          (/\ on_message(payload)
           /\ ValidUtf8(payload)
           /\ Len(Tokens(payload)) >= 5
           /\ Tokens(payload)[1] = master_name
           /\ ~DenotesU16(Tokens(payload)[5]))
          => /\ chan' = chan
             /\ listenerPc' = "Subscribed"]_vars

\* C5: handling a text notification of fewer than 5 tokens (the empty
\* payload included) sends nothing and leaves the listener subscribed.
C5_ShortNotificationDiscarded ==
    [][\A payload \in Handling' :
          (on_message(payload) /\ ValidUtf8(payload) /\ Len(Tokens(payload)) < 5)
          => /\ chan' = chan
             /\ sent' = sent
             /\ listenerPc' = "Subscribed"]_vars

\* a 4-token notification for our master went through
C5_Witness ==
    /\ lastEvent.op = "notification"
    /\ lastEvent.payload = Join(<<G, HostA, Port1, HostB>>, SP)
    /\ lastEvent.handled.send = <<>>
    /\ listenerPc = "Subscribed"

\* C6: handling a text notification of 5 or more tokens whose first token is
\* not the configured master name sends nothing and leaves the listener
\* subscribed, whatever the other tokens are.
C6_OtherMasterDiscarded ==
    [][\A payload \in Handling' :
          (/\ on_message(payload)
           /\ ValidUtf8(payload)
           /\ Len(Tokens(payload)) >= 5
           /\ Tokens(payload)[1] # master_name)
          => /\ chan' = chan
             /\ sent' = sent
             /\ listenerPc' = "Subscribed"]_vars

\* a notification for a master whose name only starts with ours, or for
\* another master with an unparsable port, went through
C6_Witness ==
    /\ lastEvent.op = "notification"
    /\ lastEvent.payload \in
          { Join(<<LongerG, HostA, Port1, HostB, Port2>>, SP),
            Join(<<OtherG, HostA, Port1, HostB, PortWord>>, SP) }
    /\ lastEvent.handled.send = <<>>
    /\ listenerPc = "Subscribed"

(***************************************************************************)
(* AddressQuery.                                                           *)
(***************************************************************************)
\* C7: for a reply of exactly two texts [host, port] where port denotes a
\* number in 0..65535, get_master_from_sentinel returns Ok((host, that
\* number)), the host as it came.
C7_ValidReplyYieldsAddress ==
    (/\ lastEvent.op = "query"
     /\ lastEvent.response.tag = "Ok"
     /\ Len(lastEvent.response.value) = 2
     /\ DenotesU16(lastEvent.response.value[2]))
    => lastEvent.result = Ok(Address(lastEvent.response.value[1],
                                     DecimalValue(lastEvent.response.value[2])))

\* the reply [b, 65535] has been turned into the address b:65535
C7_Witness ==
    /\ lastEvent.op = "query"
    /\ lastEvent.response = Ok(<<HostB, PortMax>>)
    /\ lastEvent.result = Ok(Address(HostB, 65535))

\* C8: get_master_from_sentinel fails with InvalidResponse for every reply
\* that has not exactly 2 elements and for every 2-element reply whose
\* second element does not denote a number in 0..65535, fails with the
\* request's error when the request failed, and a failure carries no address.
C8_BadReplyRejected ==
    lastEvent.op = "query"
    => /\ (lastEvent.response.tag = "Ok" /\ Len(lastEvent.response.value) # 2)
             => lastEvent.result = Err("InvalidResponse")
       /\ (/\ lastEvent.response.tag = "Ok"
           /\ Len(lastEvent.response.value) = 2
           /\ ~DenotesU16(lastEvent.response.value[2]))
             => lastEvent.result = Err("InvalidResponse")
       /\ lastEvent.response.tag = "Err" => lastEvent.result = Err("RedisErr")
       /\ lastEvent.result.tag = "Err" => DOMAIN lastEvent.result = {"tag", "kind"}

\* a 3-element reply that starts like a valid one has been rejected
C8_Witness ==
    /\ lastEvent.op = "query"
    /\ lastEvent.response = Ok(<<HostA, Port1, PortMax>>)
    /\ lastEvent.result = Err("InvalidResponse")

(***************************************************************************)
(* Startup.                                                                *)
(***************************************************************************)
Exited == mainPc \in {"ExitFailure", "Panicked"}

\* the exit status of the process: ExitCode::FAILURE is 1, a panic of the
\* main thread ends the process with 101
ExitStatus == IF mainPc = "ExitFailure" THEN 1 ELSE 101

\* of Argvs, the one command line with three arguments and an interval in
\* whole seconds
GoodArgv == <<Prog, SentinelAddr, G, <<"5">>>>

NothingStarted ==
    /\ listenerPc = "NotStarted"
    /\ pollerPc = "NotStarted"
    /\ matLog = <<>>
    /\ sent = <<>>

\* C9: with a wrong argument count or a missing or malformed interval the
\* process exits with a failure status, and so it does when the initial query
\* (or the connection for it) fails; whenever it has exited, neither thread
\* has been started and materialize_service has not been called.
C9_StartupFailureExitsBeforeAnyWork ==
    /\ [](Exited => (NothingStarted /\ ExitStatus # 0))
    /\ [][(mainPc = "ParseArgs" /\ mainPc' # "ParseArgs" /\ args # GoodArgv)
             => Exited']_vars
    /\ [][(mainPc = "Connect" /\ mainPc' \notin {"Connect", "InitialQuery"})
             => Exited']_vars
    /\ [][(mainPc = "InitialQuery" /\ mainPc' # "InitialQuery")
             => /\ lastEvent'.op = "query"
                /\ \/ lastEvent'.result.tag = "Ok" /\ mainPc' = "SpawnListener"
                   \/ lastEvent'.result.tag = "Err" /\ mainPc' = "ExitFailure"]_vars
    /\ (args # GoodArgv) ~> Exited

\* the initial query got a reply with an invalid port and the process has
\* exited with nothing started
C9_Witness ==
    /\ mainPc = "ExitFailure"
    /\ lastEvent.op = "query"
    /\ lastEvent.response = Ok(<<HostB, PortOver>>)
    /\ NothingStarted

(***************************************************************************)
(* The polling loop.                                                       *)
(***************************************************************************)
LastResponse == IF lastEvent.op = "query" THEN {lastEvent.response} ELSE {}

\* C10: the polling thread goes from its query to the sleep, having sent
\* exactly one address if the query succeeded and nothing if it failed, and
\* it connects again only out of the sleep (or after a failed connection):
\* no two queries without a sleep in between.
C10_SleepAfterEveryQuery ==
    /\ [][\A response \in LastResponse' :
             on_response(response)
             => /\ pollerPc' = "Sleeping"
                /\ \/ /\ lastEvent'.result.tag = "Ok"
                      /\ chan' = Append(chan, Entry(lastEvent'.result.value, "poller"))
                      /\ Len(sent') = Len(sent) + 1
                   \/ /\ lastEvent'.result.tag = "Err"
                      /\ chan' = chan
                      /\ sent' = sent]_vars
    /\ [][(pollerPc = "Querying" /\ pollerPc' # "Querying")
             => pollerPc' = "Sleeping"]_vars
    /\ [][(pollerPc' = "Querying" /\ pollerPc # "Querying")
             => pollerPc = "Connecting"]_vars
    /\ [][(pollerPc' = "Connecting" /\ pollerPc # "Connecting")
             => pollerPc \in {"NotStarted", "Sleeping"}]_vars

\* the polling thread sleeps after a failed query, an earlier query of it
\* having succeeded
C10_Witness ==
    /\ pollerPc = "Sleeping"
    /\ lastEvent.op = "query"
    /\ lastEvent.by = "poller"
    /\ lastEvent.result.tag = "Err"
    /\ ByProducer(sent, "poller") # <<>>

(***************************************************************************)
(* The polling thread next to the listening thread.                        *)
(***************************************************************************)
PollerRunning == pollerPc \in {"Connecting", "Querying", "Sleeping"}

\* the steps of the loop of poll_master_address, as pairs of positions
PollerCycle ==
    { <<"Connecting", "Connecting">>, <<"Connecting", "Querying">>,
      <<"Querying", "Sleeping">>, <<"Sleeping", "Connecting">> }

poller_thread == poll_connect \/ poll_query \/ poll_sleep

\* the step is one of the listening thread
ListenerStep ==
    \/ listenerPc # "NotStarted" /\ listenerPc' # listenerPc
    \/ /\ lastEvent' # lastEvent
       /\ lastEvent'.op \in {"connect_failed", "subscribe_failed", "subscription_failed",
                             "notification"}
       /\ lastEvent'.by = "listener"

\* C11: the polling thread has no terminal state and does not depend on the
\* listening thread: once started it is always at one of Connecting, Querying
\* and Sleeping, it moves only along Connecting -> Querying -> Sleeping ->
\* Connecting (or stays at Connecting after a failed connect), no step of the
\* listening thread moves it, whatever the listening thread's state (also
\* when it has panicked) a step of the polling thread is possible, and every
\* successful query appends its address to the channel, from which the
\* Materializer gets it (no loss: NoLossNoDup).
C11_PollerNeverStopsAndIsIndependent ==
    /\ [](pollerPc = "NotStarted" \/ PollerRunning)
    /\ [](PollerRunning => ENABLED poller_thread)
    /\ []NoLossNoDup
    /\ [][/\ PollerRunning => PollerRunning'
          /\ (PollerRunning /\ pollerPc' # pollerPc) => <<pollerPc, pollerPc'>> \in PollerCycle
          /\ ListenerStep => pollerPc' = pollerPc
          /\ \A response \in LastResponse' :
                (on_response(response) /\ lastEvent'.result.tag = "Ok")
                    => /\ chan' = Append(chan, Entry(lastEvent'.result.value, "poller"))
                       /\ pollerPc' = "Sleeping"]_vars

\* the listening thread has panicked, and after that the polling thread has
\* published an address, which has been materialized
C11_Witness ==
    /\ listenerPc = "Panicked"
    /\ lastEvent.op = "query" /\ lastEvent.by = "poller" /\ lastEvent.result.tag = "Ok"
    /\ chan = <<>>
    /\ matLog[Len(matLog)] = Entry(lastEvent.result.value, "poller")
    /\ pollerPc = "Connecting"

(***************************************************************************)
(* Both threads gone. eprintln! panics when the write to stderr fails, so  *)
(* with a stderr that has become unwritable a thread ends at the next line *)
(* it logs. CrashSpec is the program in such an environment.               *)
(***************************************************************************)
\* lines 76, 89, 107: the eprintln! of the listening thread panics
listen_log_panics ==
    /\ listenerPc \in {"Connecting", "Subscribing", "Subscribed"}
    /\ listenerPc' = "Panicked"
    /\ lastEvent' = [op |-> "log_failed", by |-> "listener"]
    /\ UNCHANGED <<args, master, reply, settled, mainPc, pollerPc, chan, sent, recvCount, matLog>>

\* lines 125, 134: the eprintln! of the polling thread panics
poll_log_panics ==
    /\ pollerPc \in {"Connecting", "Querying"}
    /\ pollerPc' = "Panicked"
    /\ lastEvent' = [op |-> "log_failed", by |-> "poller"]
    /\ UNCHANGED <<args, master, reply, settled, mainPc, listenerPc, chan, sent, recvCount, matLog>>

CrashNext ==
    \/ main_parse_args
    \/ main_open_client
    \/ main_connect
    \/ main_initial_query
    \/ main_spawn_listener
    \/ main_spawn_poller
    \/ main_reconcile
    \/ listen_connect
    \/ listen_subscribe
    \/ listen_message
    \/ listen_subscription_error
    \/ listen_log_panics
    \/ poll_connect
    \/ poll_query
    \/ poll_sleep
    \/ poll_log_panics

CrashSpec == Init /\ [][CrashNext]_vars

ProducersTerminated == listenerPc = "Panicked" /\ pollerPc = "Panicked"

\* C12, as stated: when both producer threads have terminated (and the
\* channel is drained), rx.recv() fails, so that the loop of main can take
\* its failing iteration (log, continue) again and again.
C12_ReceiveFailsWhenProducersGone ==
    (mainPc = "Reconcile" /\ ProducersTerminated /\ chan = <<>>) => ENABLED main_reconcile

\* C12, amended: rx.recv() never fails, because main keeps its own Sender:
\* with an empty channel the loop of main is blocked in recv, also when both
\* producer threads have terminated; main never leaves the loop and a
\* terminated thread is never started again.
C12_ReceiveBlocksWhenProducersGone ==
    /\ [](lastEvent.op # "receive_failed")
    /\ []((mainPc = "Reconcile" /\ chan = <<>>) => ~ENABLED main_reconcile)
    /\ [][/\ mainPc = "Reconcile" => mainPc' = "Reconcile"
          /\ listenerPc = "Panicked" => listenerPc' = "Panicked"
          /\ pollerPc = "Panicked" => pollerPc' = "Panicked"]_vars

\* both threads have terminated, everything sent has been materialized, and
\* main is in its loop
C12_Witness ==
    /\ mainPc = "Reconcile"
    /\ ProducersTerminated
    /\ chan = <<>>
    /\ Len(matLog) = Len(sent) + 1

(***************************************************************************)
(* The program next to a sentinel tier that names a master: SentinelSpec.  *)
(* The tier answers a query with the master it names at that moment (or    *)
(* with an error), the reply takes time to reach the polling thread, and   *)
(* a failover changes the master and is announced to a subscribed listener.*)
(***************************************************************************)
Masters == {<<HostA, Port1>>, <<HostB, Port2>>}

\* the Address a reply naming m is turned into
AddressOf(m) == Address(m[1], ParseU16(m[2]).value)

\* the replies to SENTINEL GET-MASTER-ADDR-BY-NAME while m is the master: the
\* request fails, or the reply names m
Answers(m) == {Err("RedisError"), Ok(m)}

\* the +switch-master message of a failover from old to new
SwitchMaster(name, old, new) == Join(<<name, old[1], old[2], new[1], new[2]>>, SP)

SentinelInit ==
    /\ args = GoodArgv
    /\ mainPc = "ParseArgs"
    /\ listenerPc = "NotStarted"
    /\ pollerPc = "NotStarted"
    /\ chan = <<>>
    /\ sent = <<>>
    /\ recvCount = 0
    /\ matLog = <<>>
    /\ lastEvent = [op |-> "none"]
    /\ master = <<HostA, Port1>>
    /\ reply = NoReply
    /\ settled = FALSE

\* lines 170-176 against the tier: the reply names the master of that moment
sentinel_initial_query ==
    /\ \E response \in Answers(master) : on_initial_response(response)
    /\ UNCHANGED <<master, reply, settled>>

\* a failover, announced to the subscribed listener, whose handler runs
sentinel_failover_announced ==
    /\ ~settled
    /\ \E new \in Masters \ {master} :
         /\ master' = new
         /\ on_message(SwitchMaster(master_name, master, new))
    /\ UNCHANGED <<reply, settled>>

\* a failover of which the listener gets no message (it is not subscribed,
\* or the message is lost with its connection)
sentinel_failover_unannounced ==
    /\ ~settled
    /\ mainPc = "Reconcile"
    /\ master' \in Masters \ {master}
    /\ UNCHANGED <<args, reply, settled, mainPc, listenerPc, pollerPc, chan, sent,
                   recvCount, matLog, lastEvent>>

\* a message with a port that is no number reaches the handler
sentinel_garbled_message ==
    /\ ~settled
    /\ on_message(Join(<<master_name, HostA, Port1, HostB, PortWord>>, SP))
    /\ UNCHANGED <<master, reply, settled>>

\* lines 122-128 against the tier: once it is settled, connecting succeeds
sentinel_poll_connect ==
    /\ poll_connect
    /\ settled => pollerPc' = "Querying"

\* the tier answers the polling thread's query; once settled, with the master
sentinel_answers ==
    /\ pollerPc = "Querying"
    /\ reply = NoReply
    /\ reply' \in (IF settled THEN {Ok(master)} ELSE Answers(master))
    /\ UNCHANGED <<args, master, settled, mainPc, listenerPc, pollerPc, chan, sent,
                   recvCount, matLog, lastEvent>>

\* lines 129-136 against the tier: the reply arrives
poll_receive ==
    /\ reply # NoReply
    /\ on_response(reply)
    /\ reply' = NoReply
    /\ UNCHANGED <<master, settled>>

\* from now on the tier is reachable, names the same master and announces
\* nothing
settle ==
    /\ ~settled
    /\ mainPc = "Reconcile"
    /\ settled' = TRUE
    /\ UNCHANGED <<args, master, reply, mainPc, listenerPc, pollerPc, chan, sent,
                   recvCount, matLog, lastEvent>>

SentinelNext ==
    \/ main_parse_args
    \/ main_open_client
    \/ main_connect
    \/ sentinel_initial_query
    \/ main_spawn_listener
    \/ main_spawn_poller
    \/ main_reconcile
    \/ listen_connect
    \/ listen_subscribe
    \/ listen_subscription_error
    \/ sentinel_failover_announced
    \/ sentinel_failover_unannounced
    \/ sentinel_garbled_message
    \/ sentinel_poll_connect
    \/ sentinel_answers
    \/ poll_receive
    \/ poll_sleep
    \/ settle

SentinelSpec == SentinelInit /\ [][SentinelNext]_vars

LastMaterialized == matLog[Len(matLog)].addr

\* C13: the Reconciler applies every entry it receives, one per receive and
\* in the order of the channel, whatever its producer and whether or not it
\* still names the master; the order of the channel is the order of the
\* sends, so an address the polling thread got before a failover and sent
\* after the listener's notification is materialized after it.
C13_StaleAddressAppliedLikeAnyOther ==
    /\ []NoLossNoDup
    /\ [][/\ recvCount' # recvCount =>
                /\ recvCount' = recvCount + 1
                /\ chan' = Tail(chan)
                /\ matLog' = Append(matLog, Head(chan))
          /\ sent' # sent => chan' = Append(chan, sent'[Len(sent')])]_vars

\* the listener's notification of the failover to the present master has
\* been materialized, and after it an address of the polling thread that is
\* not the master any more; nothing waits in the channel
C13_Witness ==
    /\ Len(matLog) >= 3
    /\ matLog[Len(matLog) - 1] = Entry(AddressOf(master), "listener")
    /\ matLog[Len(matLog)].from = "poller"
    /\ LastMaterialized # AddressOf(master)
    /\ sent = <<matLog[Len(matLog) - 1], matLog[Len(matLog)]>>
    /\ chan = <<>>

(***************************************************************************)
(* The polling thread without a connection.                                *)
(***************************************************************************)
\* C14: a step of the polling thread in which get_connection fails sends
\* nothing, runs no query and leaves the thread at Connecting, where the next
\* attempt is possible at once; Sleeping is entered from Querying only, so a
\* thread whose connections all fail never sleeps.
C14_FailedConnectRetriesAtOnce ==
    /\ [](pollerPc = "Connecting" => ENABLED poll_connect)
    /\ [][/\ (poll_connect /\ pollerPc' # "Querying") =>
                /\ pollerPc' = "Connecting"
                /\ chan' = chan /\ sent' = sent
                /\ lastEvent' = [op |-> "connect_failed", by |-> "poller"]
          /\ (pollerPc # "Sleeping" /\ pollerPc' = "Sleeping") => pollerPc = "Querying"]_vars

\* the polling thread has failed to connect, is at Connecting, and has not
\* sent anything yet
C14_Witness ==
    /\ pollerPc = "Connecting"
    /\ lastEvent = [op |-> "connect_failed", by |-> "poller"]
    /\ ByProducer(sent, "poller") = <<>>

(***************************************************************************)
(* The listening thread's way out of its subscription.                     *)
(***************************************************************************)
\* C15: the listening thread leaves Subscribed only by a subscription error,
\* which takes it to Connecting with nothing sent; a failed connect and a
\* failed subscribe send nothing either and leave it at Connecting.
C15_SubscribedLeftOnlyBySubscriptionError ==
    [][/\ (listenerPc = "Subscribed" /\ listenerPc' # "Subscribed") =>
            /\ listenerPc' = "Connecting"
            /\ lastEvent' = [op |-> "subscription_failed", by |-> "listener"]
            /\ chan' = chan /\ sent' = sent
       /\ (lastEvent' # lastEvent
             /\ lastEvent' \in {[op |-> "connect_failed", by |-> "listener"],
                                [op |-> "subscribe_failed", by |-> "listener"]}) =>
            /\ listenerPc' = "Connecting"
            /\ chan' = chan /\ sent' = sent]_vars

(***************************************************************************)
(* The channel has no capacity.                                            *)
(***************************************************************************)
\* a valid reply, and a notification of group G that the handler accepts
ReplyA == Ok(<<HostA, Port1>>)
SwitchAB == Join(<<G, HostA, Port1, HostB, Port2>>, SP)

\* C16: a send is never held back or dropped because of what waits in the
\* channel: in every state, whatever the channel's length, a polling thread
\* with a valid reply and a subscribed listener with a matching notification
\* can take their step, and everything sent and not yet received is in the
\* channel; so with main taking no step the channel grows with every send
\* (up to MaxSent entries here, the number of sends the model follows).
C16_SendNeverBlocksNorDrops ==
    /\ (pollerPc = "Querying" /\ Len(sent) < MaxSent)
         => ENABLED (on_response(ReplyA)
                     /\ UNCHANGED <<master, reply, settled>>)
    /\ (listenerPc = "Subscribed" /\ Len(sent) < MaxSent)
         => ENABLED (on_message(SwitchAB)
                     /\ UNCHANGED <<master, reply, settled>>)
    /\ Len(chan) = Len(sent) - recvCount

\* main has received nothing, and every entry sent waits in the channel:
\* MaxSent of them, of both producers
C16_Witness ==
    /\ recvCount = 0
    /\ Len(chan) = MaxSent
    /\ \A p \in Producers : ByProducer(chan, p) # <<>>

(***************************************************************************)
(* The first materialization.                                              *)
(***************************************************************************)
PastStartup == mainPc \in {"SpawnListener", "SpawnPoller", "Reconcile"}

\* C17: once main is past its startup the Materializer has been invoked; its
\* first invocation is the one of main's initial query, with that query's
\* address, made while neither thread is started, and it is the only such
\* invocation; every later invocation is made by the loop of main with the
\* entry it takes from the channel, so the k-th later invocation is with the
\* k-th entry sent.
C17_FirstMaterializationIsInitialQuery ==
    /\ [](PastStartup => matLog # <<>>)
    /\ []((listenerPc # "NotStarted" \/ pollerPc # "NotStarted") => matLog # <<>>)
    /\ [](matLog # <<>> =>
            /\ matLog[1].from = "initial"
            /\ \A k \in 2..Len(matLog) : matLog[k] = sent[k - 1])
    /\ [][/\ (matLog = <<>> /\ matLog' # <<>>) =>
                /\ mainPc = "InitialQuery" /\ mainPc' = "SpawnListener"
                /\ lastEvent'.op = "query" /\ lastEvent'.by = "main"
                /\ lastEvent'.result.tag = "Ok"
                /\ matLog' = <<Entry(lastEvent'.result.value, "initial")>>
                /\ listenerPc' = "NotStarted" /\ pollerPc' = "NotStarted"
          /\ (matLog # <<>> /\ matLog' # matLog) =>
                /\ mainPc = "Reconcile" /\ chan # <<>>
                /\ matLog' = Append(matLog, Head(chan))
                /\ chan' = Tail(chan)]_vars

\* the initial address has been materialized, and after it one of each
\* producer, taken from the channel
C17_Witness ==
    /\ Len(matLog) = 3
    /\ matLog[1].from = "initial"
    /\ {matLog[2].from, matLog[3].from} = Producers
    /\ recvCount = 2

(***************************************************************************)
(* Convergence through polling.                                            *)
(***************************************************************************)
\* the polling thread against the sentinel tier
sentinel_poller_thread == sentinel_poll_connect \/ poll_receive \/ poll_sleep

\* the loop of main and the polling thread are scheduled, and the tier
\* answers the queries it gets
SentinelFairSpec ==
    /\ SentinelSpec
    /\ WF_vars(main_reconcile)
    /\ WF_vars(sentinel_poller_thread)
    /\ WF_vars(sentinel_answers)

\* the address last materialized is the one of the master
MaterializedIsMaster == matLog # <<>> /\ LastMaterialized = AddressOf(master)

\* C18: when the sentinel tier has settled (it stays reachable, names the
\* same master and announces nothing) and the polling thread starts an
\* iteration, then, the polling thread and the loop of main being scheduled,
\* from some moment on the last address materialized is the master's and
\* stays it, whatever the listener's state and whatever was materialized
\* before. (The iteration must be one the model follows: fewer than MaxSent
\* sends so far.)
C18_PollingConverges ==
    (settled /\ pollerPc = "Connecting" /\ Len(sent) < MaxSent)
        ~> []MaterializedIsMaster

\* the tier has settled, the listener has panicked, an address that is not
\* the master's was materialized, and after it the polling thread's address,
\* which is the master's
C18_Witness ==
    /\ settled
    /\ listenerPc = "Panicked"
    /\ Len(matLog) >= 2
    /\ matLog[Len(matLog) - 1].addr # AddressOf(master)
    /\ matLog[Len(matLog)] = Entry(AddressOf(master), "poller")
    /\ chan = <<>>

(***************************************************************************)
(* The receiving end of the channel.                                       *)
(***************************************************************************)
\* C19: whenever a producer thread has been started the Receiver is alive
\* (main owns it and, once in its loop, never leaves the loop), so no send
\* ever fails: neither unwrap on send panics, the polling thread never
\* terminates, and the listening thread terminates only by a panic inside
\* the handling of a message, before any send.
C19_SendNeverFails ==
    /\ []((listenerPc # "NotStarted" \/ pollerPc # "NotStarted") => rx_alive)
    /\ [](lastEvent.op # "send_failed")
    /\ [](pollerPc # "Panicked")
    /\ [][/\ rx_alive => rx_alive'
          /\ (listenerPc # "Panicked" /\ listenerPc' = "Panicked") =>
                /\ lastEvent'.op = "notification"
                /\ lastEvent'.handled.flow = "Panic"
                /\ lastEvent'.handled.send = <<>>]_vars

\* main is in its loop, and both producers have sent: MaxSent sends, each
\* one into the channel
C19_Witness ==
    /\ mainPc = "Reconcile"
    /\ Len(sent) = MaxSent
    /\ \A p \in Producers : ByProducer(sent, p) # <<>>
    /\ lastEvent.op \in {"query", "notification"}

====
